---------------------------- MODULE Spec2Model ----------------------------
(***************************************************************************)
(* Day 17 of diederikwp/aoc23 (src/src/puzzles/d17.rs): a Map is parsed    *)
(* from text, a Dijkstra pass computes heur_cost_to_target, and an A*      *)
(* search (cheapest_path_cost) parameterised by the node type (Crucible or *)
(* UltraCrucible) finds the cheapest path from the top-left to the         *)
(* bottom-right cell.                                                      *)
(*                                                                         *)
(* Option<T> is modelled as a set with at most one element: None is {} and *)
(* Some(v) is {v}.  A BinaryHeap is modelled as a bag (entry -> count)     *)
(* whose pop removes the greatest element of the heap's order.             *)
(***************************************************************************)
EXTENDS Integers, Sequences, FiniteSets, TLC

VARIABLES
    input,          \* the text handed to Map::from_str (a sequence of bytes)
    pc,             \* where the program is: "parse", "heur", "ready", "search", "done",
                    \* "walk"; or how the parse failed: "err", "panic"
    grid,           \* Map.grid: [height, width, cells]
    lowest_cost,    \* find_lowest_cost_to_target: lowest_cost
    hvisited,       \* find_lowest_cost_to_target: visited
    hfrontier,      \* find_lowest_cost_to_target: frontier (a bag)
    heur_cost_to_target, \* Map.heur_cost_to_target
    policy,         \* the node type T of cheapest_path_cost::<T>
    tiebreak,       \* "heap": pop as BinaryHeap does; "any": any entry of least priority
    visited,        \* cheapest_path_cost: visited
    frontier,       \* cheapest_path_cost: frontier (a bag)
    best_cost,      \* cheapest_path_cost: best_cost
    popped,         \* cheapest_path_cost: the entry bound by the last `while let`
    result,         \* the Option<u32> returned by the last finished search
    walk,           \* a chain of make_step calls: the node reached and the last call
    history         \* finished calls, oldest first: [text, policy, tiebreak, result]

vars == <<input, pc, grid, lowest_cost, hvisited, hfrontier, heur_cost_to_target,
          policy, tiebreak, visited, frontier, best_cost, popped, result, walk, history>>

mapVars == <<input, grid, lowest_cost, hvisited, hfrontier, heur_cost_to_target>>
searchVars == <<policy, tiebreak, visited, frontier, best_cost, popped, result>>

-----------------------------------------------------------------------------
(* Option<T> and small helpers *)

None == {}
Some(v) == {v}
Unwrap(o) == CHOOSE v \in o : TRUE

\* lexicographic "less than" on integer tuples of one length (derived Ord on tuples)
RECURSIVE LexLess(_, _)
LexLess(a, b) ==
    IF a = <<>> THEN FALSE
    ELSE IF Head(a) # Head(b) THEN Head(a) < Head(b)
    ELSE LexLess(Tail(a), Tail(b))

-----------------------------------------------------------------------------
(* BinaryHeap as a bag *)

EmptyBag == <<>>
BagPush(b, e) ==
    IF e \in DOMAIN b THEN [b EXCEPT ![e] = @ + 1]
    ELSE b @@ (e :> 1)
\* mutant: the least entry is read and left on the heap (peek for pop)
BagRemovePeek(b, e) == b

BagRemove(b, e) ==
    IF b[e] > 1 THEN [b EXCEPT ![e] = @ - 1]
    ELSE [x \in DOMAIN b \ {e} |-> b[x]]

-----------------------------------------------------------------------------
(* Map::from_str *)

NEWLINE == 10
ASCII_ZERO == 48

\* s.find('\n').unwrap_or(s.len()): the 0-based index of the first newline
FindNewline(s) ==
    LET at == {i \in 1..Len(s) : s[i] = NEWLINE}
    IN IF at = {} THEN Len(s)
       ELSE (CHOOSE i \in at : \A j \in at : i <= j) - 1

\* s.bytes().filter(|&b| b != b'\n')
NotNewline(b) == b # NEWLINE
FilterNewlines(s) == SelectSeq(s, NotNewline)

\* b - b'0' on u8.  Below '0' the subtraction overflows: a build with overflow
\* checks (the dev and test profiles) panics, a build without (the release
\* profile) wraps modulo 2^8.  None stands for the panic.
Builds == {"checked", "wrapping"}
SubZero(build, b) ==
    IF b >= ASCII_ZERO THEN Some(b - ASCII_ZERO)
    ELSE IF build = "checked" THEN None
    ELSE Some((b - ASCII_ZERO) % 256)

\* the parse up to into_shape in one build: "panic" (the overflow of b - b'0'
\* with overflow checks on, or the division by a zero width), "err"
\* (ShapeError), or "ok"
FromStrIn(build, s) ==
    LET width == FindNewline(s)
        bytes == FilterNewlines(s)
    IN IF \E i \in 1..Len(bytes) : SubZero(build, bytes[i]) = None THEN [outcome |-> "panic"]
       ELSE IF width = 0 THEN [outcome |-> "panic"]
       ELSE LET linear_grid == [i \in 1..Len(bytes) |-> Unwrap(SubZero(build, bytes[i]))]
                height == Len(linear_grid) \div width
            IN IF height * width # Len(linear_grid) THEN [outcome |-> "err"]
               ELSE [outcome |-> "ok",
                     grid |-> [height |-> height, width |-> width,
                               cells |-> [p \in (0..height - 1) \X (0..width - 1) |->
                                             linear_grid[p[1] * width + p[2] + 1]]]]

\* the parse as the tests build it (overflow checks on)
FromStr(s) == FromStrIn("checked", s)

\* the outcomes of the parse over the builds
FromStrOutcomes(s) == {FromStrIn(build, s) : build \in Builds}

\* Map::target
Target(g) == <<g.height - 1, g.width - 1>>

-----------------------------------------------------------------------------
(* Map::find_lowest_cost_to_target *)

\* the sentinel of Array2::from_elem(shape, u32::MAX).  u32::MAX = 4294967295 is
\* beyond TLC's 32-bit integers; the model uses the greatest integer TLC holds,
\* which like u32::MAX exceeds every path cost of the grids modelled.
UNREACHED == 2147483647

\* mutant: the step up is missing from the array
HeurDeltasNoUp == << <<1, 0>>, <<0, -1>>, <<0, 1>> >>

\* the (dy, dx) array of the for loop
HeurDeltas == << <<1, 0>>, <<0, -1>>, <<-1, 0>>, <<0, 1>> >>

\* mutant: the tuple is (pos, cost), as the comment on the frontier has it
HeurKeyPosFirst(e) == <<e[2][1], e[2][2], e[1]>>

\* Reverse((cost, pos)): the heap pops the least (cost, (row, col))
HeurKey(e) == <<e[1], e[2][1], e[2][2]>>

\* mutant: the heap is a max-heap (the Reverse wrapper forgotten)
HeurPopGreatest(b) ==
    CHOOSE e \in DOMAIN b : \A f \in DOMAIN b : ~LexLess(HeurKey(e), HeurKey(f))

HeurPop(b) == CHOOSE e \in DOMAIN b : \A f \in DOMAIN b : ~LexLess(HeurKey(f), HeurKey(e))

\* mutant: the relaxation pays for the neighbour, not for the cell entered from it
HeurNeighbourCostOfNeighbour(g, cost, pos, neighbour) == cost + g.cells[neighbour]

\* neighbour_cost of the relaxation of `neighbour` from the popped (cost, pos)
HeurNeighbourCost(g, cost, pos, neighbour) == cost + g.cells[pos]

\* the body of the for loop over the four deltas, from delta i on;
\* acc is [lowest_cost, frontier]
RECURSIVE HeurRelax(_, _, _, _, _)
HeurRelax(g, cost, pos, acc, i) ==
    IF i > Len(HeurDeltas) THEN acc
    ELSE LET ineighbour == <<pos[1] + HeurDeltas[i][1], pos[2] + HeurDeltas[i][2]>>
         IN IF ineighbour[1] < 0 \/ ineighbour[2] < 0 THEN HeurRelax(g, cost, pos, acc, i + 1)
            ELSE IF ineighbour[1] >= g.height \/ ineighbour[2] >= g.width
                 THEN HeurRelax(g, cost, pos, acc, i + 1)
            ELSE LET neighbour == ineighbour
                     neighbour_cost == HeurNeighbourCost(g, cost, pos, neighbour)
                     lc == IF neighbour_cost < acc.lowest_cost[neighbour]
                           THEN [acc.lowest_cost EXCEPT ![neighbour] = neighbour_cost]
                           ELSE acc.lowest_cost
                 IN HeurRelax(g, cost, pos,
                              [lowest_cost |-> lc,
                               frontier |-> BagPush(acc.frontier, <<lc[neighbour], neighbour>>)],
                              i + 1)

-----------------------------------------------------------------------------
(* Direction *)

Directions == {"North", "East", "South", "West"}

\* the variant order of the derived Ord
DirIndex(d) == CASE d = "North" -> 0 [] d = "East" -> 1 [] d = "South" -> 2 [] d = "West" -> 3

dx(d) == CASE d \in {"North", "South"} -> 0 [] d = "East" -> 1 [] d = "West" -> -1
dy(d) == CASE d \in {"East", "West"} -> 0 [] d = "North" -> -1 [] d = "South" -> 1
\* mutant: East and West are taken for their own opposites
oppositeNorthSouthOnly(d) ==
    CASE d = "North" -> "South" [] d = "South" -> "North" [] OTHER -> d

opposite(d) ==
    CASE d = "North" -> "South" [] d = "East" -> "West"
      [] d = "South" -> "North" [] d = "West" -> "East"

\* Map::get_neighbour_pos
get_neighbour_pos(g, pos, direction) ==
    LET neighbour_pos == <<pos[1] + dy(direction), pos[2] + dx(direction)>>
    IN IF \/ neighbour_pos[1] < 0
          \/ neighbour_pos[2] < 0
          \/ neighbour_pos[1] >= g.height
          \/ neighbour_pos[2] >= g.width
       THEN None
       ELSE Some(neighbour_pos)

-----------------------------------------------------------------------------
(* impl Node for Crucible *)

\* mutant: the start node counts as having made a step in its direction
CrucibleNewTwo(start_pos, start_direction) ==
    [pos |-> start_pos, direction |-> start_direction, remaining_steps |-> 2]

\* mutant: the start node may make 4 steps in its direction
CrucibleNewFour(start_pos, start_direction) ==
    [pos |-> start_pos, direction |-> start_direction, remaining_steps |-> 4]

CrucibleNew(start_pos, start_direction) ==
    [pos |-> start_pos, direction |-> start_direction, remaining_steps |-> 3]

\* mutant: a stop needs a move made, as under the other policy
CrucibleCanStopAfterMove(self) == self.remaining_steps < 3

CrucibleCanStop(self) == TRUE

\* mutant: a turn refills the run to 3 further steps
CrucibleRemainingRefill3(self, direction) ==
    IF self.direction = direction THEN self.remaining_steps - 1 ELSE 3

\* the run-state of the successor of a step that is allowed
CrucibleRemaining(self, direction) ==
    IF self.direction = direction THEN self.remaining_steps - 1 ELSE 2

\* mutant: the test of the spent run is missing
CrucibleMakeStepUnchecked(self, g, direction) ==
    LET np == get_neighbour_pos(g, self.pos, direction)
    IN IF np = None THEN None
       ELSE IF self.direction = opposite(direction) THEN None
       ELSE Some([pos |-> Unwrap(np), direction |-> direction,
                  remaining_steps |-> CrucibleRemaining(self, direction)])

CrucibleMakeStep(self, g, direction) ==
    LET np == get_neighbour_pos(g, self.pos, direction)
    IN IF np = None THEN None
       ELSE IF self.direction = opposite(direction) THEN None
       ELSE IF self.direction = direction /\ self.remaining_steps = 0 THEN None
       ELSE Some([pos |-> Unwrap(np), direction |-> direction,
                  remaining_steps |-> CrucibleRemaining(self, direction)])

-----------------------------------------------------------------------------
(* impl Node for UltraCrucible *)

\* mutant: the start node counts as one step made
UltraCrucibleNewOneStep(start_pos, start_direction) ==
    [pos |-> start_pos, direction |-> start_direction, consecutive_steps |-> 1]

UltraCrucibleNew(start_pos, start_direction) ==
    [pos |-> start_pos, direction |-> start_direction, consecutive_steps |-> 0]

\* mutant: the crucible may stop after 3 steps
UltraCrucibleCanStopMin3(self) == self.consecutive_steps >= 3

\* mutant: the crucible may stop after any run
UltraCrucibleCanStopAlways(self) == TRUE

UltraCrucibleCanStop(self) == self.consecutive_steps >= 4

\* mutant: a run ends after 11 steps (> for >=)
UltraCrucibleRefusedCap11(self, direction) ==
    \/ /\ self.direction = direction
       /\ self.consecutive_steps > 10
       /\ self.consecutive_steps # 0
    \/ /\ self.direction # direction
       /\ self.consecutive_steps < 4
       /\ self.consecutive_steps # 0

\* mutant: a run ends after 9 steps
UltraCrucibleRefusedCap9(self, direction) ==
    \/ /\ self.direction = direction
       /\ self.consecutive_steps >= 9
       /\ self.consecutive_steps # 0
    \/ /\ self.direction # direction
       /\ self.consecutive_steps < 4
       /\ self.consecutive_steps # 0

\* mutant: a turn is allowed after 3 steps
UltraCrucibleRefusedMin3(self, direction) ==
    \/ /\ self.direction = direction
       /\ self.consecutive_steps >= 10
       /\ self.consecutive_steps # 0
    \/ /\ self.direction # direction
       /\ self.consecutive_steps < 3
       /\ self.consecutive_steps # 0

\* the two run-length tests of make_step: TRUE when the step is refused
UltraCrucibleRefused(self, direction) ==
    \/ /\ self.direction = direction
       /\ self.consecutive_steps >= 10
       /\ self.consecutive_steps # 0
    \/ /\ self.direction # direction
       /\ self.consecutive_steps < 4
       /\ self.consecutive_steps # 0

\* mutant: a turn resets the count to 0
UltraCrucibleMakeStepResetZero(self, g, direction) ==
    LET np == get_neighbour_pos(g, self.pos, direction)
    IN IF np = None THEN None
       ELSE IF self.direction = opposite(direction) THEN None
       ELSE IF UltraCrucibleRefused(self, direction) THEN None
       ELSE Some([pos |-> Unwrap(np), direction |-> direction,
                  consecutive_steps |->
                      IF self.direction = direction THEN self.consecutive_steps + 1 ELSE 0])

UltraCrucibleMakeStep(self, g, direction) ==
    LET np == get_neighbour_pos(g, self.pos, direction)
    IN IF np = None THEN None
       ELSE IF self.direction = opposite(direction) THEN None
       ELSE IF UltraCrucibleRefused(self, direction) THEN None
       ELSE Some([pos |-> Unwrap(np), direction |-> direction,
                  consecutive_steps |->
                      IF self.direction = direction THEN self.consecutive_steps + 1 ELSE 1])

-----------------------------------------------------------------------------
(* trait Node, dispatched on the type parameter T *)

Policies == {"Crucible", "UltraCrucible"}

NodeNew(T, start_pos, start_direction) ==
    IF T = "Crucible" THEN CrucibleNew(start_pos, start_direction)
    ELSE UltraCrucibleNew(start_pos, start_direction)

can_stop(T, node) ==
    IF T = "Crucible" THEN CrucibleCanStop(node) ELSE UltraCrucibleCanStop(node)

make_step(T, node, g, direction) ==
    IF T = "Crucible" THEN CrucibleMakeStep(node, g, direction)
    ELSE UltraCrucibleMakeStep(node, g, direction)

\* mutant: the estimate is inflated
heuristicTripled(node, heur) == 3 * heur[node.pos]

\* Crucible::heuristic and UltraCrucible::heuristic
heuristic(node, heur) == heur[node.pos]

\* the order in which get_all_neighbours lists the four steps
NeighbourOrder == <<"North", "East", "South", "West">>

\* the derived Ord of a node: pos, then direction, then the run counter
NodeKey(T, n) ==
    <<n.pos[1], n.pos[2], DirIndex(n.direction),
      IF T = "Crucible" THEN n.remaining_steps ELSE n.consecutive_steps>>

-----------------------------------------------------------------------------
(* Map::cheapest_path_cost *)

\* Reverse((priority, cost, node)): the heap pops the least tuple
FrontierKey(T, e) == <<e[1], e[2]>> \o NodeKey(T, e[3])

\* mutant: the heap is a max-heap (the Reverse wrapper forgotten)
FrontierPopGreatest(T, b) ==
    CHOOSE e \in DOMAIN b : \A f \in DOMAIN b : ~LexLess(FrontierKey(T, e), FrontierKey(T, f))

FrontierPop(T, b) ==
    CHOOSE e \in DOMAIN b : \A f \in DOMAIN b : ~LexLess(FrontierKey(T, f), FrontierKey(T, e))

\* the entries a pop may return: the heap's own choice, or (tie = "any") any
\* entry whose priority is the least
PopChoices(T, b, tie) ==
    IF tie = "heap" THEN {FrontierPop(T, b)}
    ELSE {e \in DOMAIN b : \A f \in DOMAIN b : e[1] <= f[1]}

\* mutant: the recorded cost is not looked at
AlreadyAsGoodNever(bc, neighbour, neighbour_cost) == FALSE

\* mutant: an equal cost does not count as good (< for <=)
AlreadyAsGoodStrict(bc, neighbour, neighbour_cost) ==
    neighbour \in DOMAIN bc /\ bc[neighbour] < neighbour_cost

\* best_cost.get(&neighbour).is_some_and(|&c| c <= neighbour_cost)
AlreadyAsGood(bc, neighbour, neighbour_cost) ==
    neighbour \in DOMAIN bc /\ bc[neighbour] <= neighbour_cost

\* best_cost.insert(k, v)
MapInsert(m, k, v) ==
    IF k \in DOMAIN m THEN [m EXCEPT ![k] = v]
    ELSE m @@ (k :> v)

\* mutant: the estimate counts twice in the priority
FrontierEntryWeighted(neighbour, neighbour_cost, heur) ==
    <<neighbour_cost + 2 * heuristic(neighbour, heur), neighbour_cost, neighbour>>

\* mutant: the priority is the estimate alone
FrontierEntryGreedy(neighbour, neighbour_cost, heur) ==
    <<heuristic(neighbour, heur), neighbour_cost, neighbour>>

\* the entry pushed for a neighbour
FrontierEntry(neighbour, neighbour_cost, heur) ==
    <<neighbour_cost + heuristic(neighbour, heur), neighbour_cost, neighbour>>

\* mutant: the step pays for the cell left
StepCostOfCellLeft(g, node, neighbour) == g.cells[node.pos]

\* u32::from(self.grid[neighbour.pos()]): what the step from node to neighbour costs
StepCost(g, node, neighbour) == g.cells[neighbour.pos]

\* the for loop over node.get_all_neighbours(self), from neighbour i on;
\* acc is [best_cost, frontier]
RECURSIVE Expand(_, _, _, _, _, _, _, _)
Expand(T, g, heur, vis, cost, node, acc, i) ==
    IF i > Len(NeighbourOrder) THEN acc
    ELSE LET step == make_step(T, node, g, NeighbourOrder[i])
         IN IF step = None THEN Expand(T, g, heur, vis, cost, node, acc, i + 1)
            ELSE LET neighbour == Unwrap(step)
                     neighbour_cost == cost + StepCost(g, node, neighbour)
                 IN IF neighbour \in vis
                    THEN Expand(T, g, heur, vis, cost, node, acc, i + 1)
                    ELSE IF AlreadyAsGood(acc.best_cost, neighbour, neighbour_cost)
                    THEN Expand(T, g, heur, vis, cost, node, acc, i + 1)
                    ELSE Expand(T, g, heur, vis, cost, node,
                                [best_cost |-> MapInsert(acc.best_cost, neighbour, neighbour_cost),
                                 frontier |-> BagPush(acc.frontier,
                                                  FrontierEntry(neighbour, neighbour_cost, heur))],
                                i + 1)

-----------------------------------------------------------------------------
(* Inputs: the two example grids of the puzzle (the files the tests of      *)
(* src/src/bin/17.rs read), a grid with zero-cost cells, and rectangular    *)
(* windows cut out of the three.                                            *)

Example1 ==
    << <<2, 4, 1, 3, 4, 3, 2, 3, 1, 1, 3, 2, 3>>,
       <<3, 2, 1, 5, 4, 5, 3, 5, 3, 5, 6, 2, 3>>,
       <<3, 2, 5, 5, 2, 4, 5, 6, 5, 4, 2, 5, 4>>,
       <<3, 4, 4, 6, 5, 8, 5, 8, 4, 5, 4, 5, 2>>,
       <<4, 5, 4, 6, 6, 5, 7, 8, 6, 7, 5, 3, 6>>,
       <<1, 4, 3, 8, 5, 9, 8, 7, 9, 8, 4, 5, 4>>,
       <<4, 4, 5, 7, 8, 7, 6, 9, 8, 7, 7, 6, 6>>,
       <<3, 6, 3, 7, 8, 7, 7, 9, 7, 9, 6, 5, 3>>,
       <<4, 6, 5, 4, 9, 6, 7, 9, 8, 6, 8, 8, 7>>,
       <<4, 5, 6, 4, 6, 7, 9, 9, 8, 6, 4, 5, 3>>,
       <<1, 2, 2, 4, 6, 8, 6, 8, 6, 5, 5, 6, 3>>,
       <<2, 5, 4, 6, 5, 4, 8, 8, 8, 7, 7, 3, 5>>,
       <<4, 3, 2, 2, 6, 7, 4, 6, 5, 5, 5, 3, 3>> >>

Example2 ==
    << <<1, 1, 1, 1, 1, 1, 1, 1, 1, 1, 1, 1>>,
       <<9, 9, 9, 9, 9, 9, 9, 9, 9, 9, 9, 1>>,
       <<9, 9, 9, 9, 9, 9, 9, 9, 9, 9, 9, 1>>,
       <<9, 9, 9, 9, 9, 9, 9, 9, 9, 9, 9, 1>>,
       <<9, 9, 9, 9, 9, 9, 9, 9, 9, 9, 9, 1>> >>

\* a small grid with zero-cost cells and a cheap detour
ZeroGrid ==
    << <<0, 9, 0, 0, 0, 1>>,
       <<0, 9, 0, 9, 0, 0>>,
       <<0, 0, 0, 9, 9, 0>>,
       <<9, 9, 1, 0, 0, 0>>,
       <<0, 0, 0, 0, 9, 0>> >>

Corpus == <<Example1, Example2, ZeroGrid>>

\* windows are at most MaxHeight x MaxWidth, hold at most MaxCells cells, and
\* start at a cell (o, o) of the diagonal with o <= MaxOffset
MaxHeight == 5
MaxWidth == 12
MaxCells == 30
MaxOffset == 1

\* the text of a grid given as rows of digits: every row ends with a newline
RECURSIVE TextOf(_)
TextOf(rows) ==
    IF rows = <<>> THEN <<>>
    ELSE [i \in 1..Len(Head(rows)) |-> Head(rows)[i] + ASCII_ZERO] \o <<NEWLINE>>
         \o TextOf(Tail(rows))

\* the h x w window of src whose top-left cell is (oy, ox)
Window(src, oy, ox, h, w) ==
    [y \in 1..h |-> [x \in 1..w |-> src[oy + y][ox + x]]]

\* the texts of the windows of the grids Corpus[k], k in srcs, of at most
\* `cells` cells, at offsets up to `off`
Windows(srcs, cells, off) ==
    { TextOf(Window(Corpus[t[1]], t[2], t[2], t[3], t[4])) :
        t \in { t \in srcs \X (0..off) \X (1..MaxHeight) \X (1..MaxWidth) :
                  /\ t[3] * t[4] <= cells
                  /\ t[2] + t[3] <= Len(Corpus[t[1]])
                  /\ t[2] + t[4] <= Len(Corpus[t[1]][1]) } }

WindowTexts == Windows(1..Len(Corpus), MaxCells, MaxOffset)

-----------------------------------------------------------------------------
(* The program *)

NoGrid == [height |-> 0, width |-> 0, cells |-> <<>>]

\* no make_step called yet
NoWalk == <<>>

\* nothing parsed and nothing searched yet
Blank ==
    /\ pc = "parse"
    /\ grid = NoGrid
    /\ lowest_cost = <<>>
    /\ hvisited = <<>>
    /\ hfrontier = EmptyBag
    /\ heur_cost_to_target = <<>>
    /\ tiebreak = "heap"
    /\ visited = {}
    /\ frontier = EmptyBag
    /\ best_cost = <<>>
    /\ popped = None
    /\ result = None
    /\ walk = NoWalk

InitWith(texts, policies) ==
    /\ input \in texts
    /\ policy \in policies
    /\ Blank
    /\ history = <<>>

Init == InitWith(WindowTexts, Policies)

\* Map::from_str up to the call of find_lowest_cost_to_target, and that
\* function's set-up before its loop
Parse ==
    /\ pc = "parse"
    /\ \E r \in FromStrOutcomes(input) :
          IF r.outcome = "ok"
          THEN LET cellset == DOMAIN r.grid.cells
                   target == Target(r.grid)
               IN /\ grid' = r.grid
                  /\ lowest_cost' = [p \in cellset |-> IF p = target THEN 0 ELSE UNREACHED]
                  /\ hvisited' = [p \in cellset |-> FALSE]
                  /\ hfrontier' = BagPush(EmptyBag, <<0, target>>)
                  /\ pc' = "heur"
          ELSE /\ pc' = r.outcome
               /\ UNCHANGED <<grid, lowest_cost, hvisited, hfrontier>>
    /\ UNCHANGED <<input, heur_cost_to_target, history, walk>>
    /\ UNCHANGED searchVars

\* one iteration of the loop of find_lowest_cost_to_target; with the frontier
\* empty, the return of lowest_cost and the construction of the Map
HeurStep ==
    /\ pc = "heur"
    /\ IF hfrontier = EmptyBag
       THEN /\ heur_cost_to_target' = lowest_cost
            /\ pc' = "ready"
            /\ UNCHANGED <<lowest_cost, hvisited, hfrontier>>
       ELSE \E e \in {HeurPop(hfrontier)} :
            \E rest \in {BagRemove(hfrontier, e)} :
            LET cost == e[1]
                pos == e[2]
            IN IF hvisited[pos]
               THEN /\ hfrontier' = rest
                    /\ UNCHANGED <<lowest_cost, hvisited, heur_cost_to_target, pc>>
               ELSE \E acc \in {HeurRelax(grid, cost, pos,
                                          [lowest_cost |-> lowest_cost, frontier |-> rest], 1)} :
                       /\ lowest_cost' = acc.lowest_cost
                       /\ hfrontier' = acc.frontier
                       /\ hvisited' = [hvisited EXCEPT ![pos] = TRUE]
                       /\ UNCHANGED <<heur_cost_to_target, pc>>
    /\ UNCHANGED <<input, grid, history, walk>>
    /\ UNCHANGED searchVars

\* mutant: visited outlives the call
BeginSearchKeepVisited(T, tie) ==
    LET start_node == NodeNew(T, <<0, 0>>, "South")
        start_heuristic == heur_cost_to_target[<<0, 0>>]
    IN /\ policy' = T
       /\ tiebreak' = tie
       /\ visited' = visited
       /\ frontier' = BagPush(EmptyBag, <<start_heuristic, 0, start_node>>)
       /\ best_cost' = MapInsert(<<>>, start_node, 0)
       /\ popped' = None
       /\ result' = None
       /\ pc' = "search"
       /\ UNCHANGED mapVars
       /\ UNCHANGED <<history, walk>>

\* cheapest_path_cost::<T> up to its loop
BeginSearch(T, tie) ==
    LET start_node == NodeNew(T, <<0, 0>>, "South")
        start_heuristic == heur_cost_to_target[<<0, 0>>]
    IN /\ policy' = T
       /\ tiebreak' = tie
       /\ visited' = {}
       /\ frontier' = BagPush(EmptyBag, <<start_heuristic, 0, start_node>>)
       /\ best_cost' = MapInsert(<<>>, start_node, 0)
       /\ popped' = None
       /\ result' = None
       /\ pc' = "search"
       /\ UNCHANGED mapVars
       /\ UNCHANGED <<history, walk>>

\* cheapest_path_cost_normal / cheapest_path_cost_ultra called on the new Map
StartSearch ==
    /\ pc = "ready"
    /\ BeginSearch(policy, tiebreak)

\* the record of a finished call
Finished(res) ==
    Append(history, [grid |-> grid, policy |-> policy, tiebreak |-> tiebreak, result |-> res])

\* one iteration of the loop of cheapest_path_cost; with the frontier empty,
\* the return of None
AStarStep ==
    /\ pc = "search"
    /\ IF frontier = EmptyBag
       THEN /\ result' = None
            /\ history' = Finished(None)
            /\ pc' = "done"
            /\ UNCHANGED <<visited, frontier, best_cost, popped>>
       ELSE \E e \in PopChoices(policy, frontier, tiebreak) :
            LET cost == e[2]
                node == e[3]
                rest == BagRemove(frontier, e)
            IN /\ popped' = Some(e)
               /\ IF node.pos = Target(grid) /\ can_stop(policy, node)
                  THEN /\ result' = Some(cost)
                       /\ history' = Finished(Some(cost))
                       /\ pc' = "done"
                       /\ frontier' = rest
                       /\ UNCHANGED <<visited, best_cost>>
                  ELSE \E acc \in {Expand(policy, grid, heur_cost_to_target, visited, cost, node,
                                            [best_cost |-> best_cost, frontier |-> rest], 1)} :
                          /\ best_cost' = acc.best_cost
                          /\ frontier' = acc.frontier
                          /\ visited' = visited \cup {node}
                          /\ UNCHANGED <<result, history, pc>>
    /\ UNCHANGED <<policy, tiebreak, walk>>
    /\ UNCHANGED mapVars

Next == Parse \/ HeurStep \/ StartSearch \/ AStarStep

Spec == Init /\ [][Next]_vars

\* the program is sequential: a step that can be taken is taken
TermCells == 20

TermTexts == Windows(1..Len(Corpus), TermCells, MaxOffset)

InitTerm == InitWith(TermTexts, Policies)

FairSpec == InitTerm /\ [][Next]_vars /\ WF_vars(Next)

-----------------------------------------------------------------------------
(* Reference: what the puzzle asks for, stated on paths and not on the      *)
(* search.  A walker has a position, the direction of its last move ("none" *)
(* before the first move) and the length of its current straight run.  It   *)
(* may not reverse; it may continue straight while the run is shorter than  *)
(* RunCap; it may turn once the run is at least RunMin long (always, before *)
(* its first move); it may stop on the target once the run is at least      *)
(* RunMin long.                                                             *)

RunCap(T) == IF T = "Crucible" THEN 3 ELSE 10
RunMin(T) == IF T = "Crucible" THEN 0 ELSE 4

Cells(g) == (0..g.height - 1) \X (0..g.width - 1)

Fresh(p) == [pos |-> p, dir |-> "none", run |-> 0]

Walkers(T, g) ==
    {Fresh(p) : p \in Cells(g)}
    \cup [pos : Cells(g), dir : Directions, run : 1..RunCap(T)]

MayMove(T, s, d) ==
    /\ s.dir = "none" \/ d # opposite(s.dir)
    /\ IF d = s.dir THEN s.run < RunCap(T)
       ELSE s.dir = "none" \/ s.run >= RunMin(T)

Moved(s, d) ==
    [pos |-> <<s.pos[1] + dy(d), s.pos[2] + dx(d)>>,
     dir |-> d,
     run |-> IF d = s.dir THEN s.run + 1 ELSE 1]

Moves(T, g, s) ==
    {Moved(s, d) : d \in {d \in Directions : MayMove(T, s, d) /\ Moved(s, d).pos \in Cells(g)}}

MayStop(T, g, s) == s.pos = Target(g) /\ s.run >= RunMin(T)

\* the least element of a set of numbers, as an Option
Least(S) == IF S = {} THEN None ELSE Some(CHOOSE v \in S : \A u \in S : v <= u)

\* the walkers that one move takes to walker t
CameFrom(T, g, t) ==
    IF t.dir = "none" THEN {}
    ELSE LET back == <<t.pos[1] - dy(t.dir), t.pos[2] - dx(t.dir)>>
             before == IF t.run > 1
                       THEN {[pos |-> back, dir |-> t.dir, run |-> t.run - 1]}
                       ELSE {Fresh(back)}
                            \cup [pos : {back}, dir : Directions \ {t.dir}, run : 1..RunCap(T)]
         IN IF back \in Cells(g)
            THEN {s \in before : MayMove(T, s, t.dir) /\ Moved(s, t.dir) = t}
            ELSE {}

\* the least cost of a legal way from walker s to a stop on the target, given
\* the least costs R of its successors
Bellman(T, g, R, s) ==
    Least((IF MayStop(T, g, s) THEN {0} ELSE {})
          \cup UNION {{g.cells[t.pos] + v : v \in R[t]} : t \in Moves(T, g, s)})

\* R[s]: the least cost of a legal way from walker s to a stop on the target
\* with at most k moves, for growing k, until another move gains nothing.
\* Only a walker one of whose successors changed in the last round can change.
RECURSIVE Remaining(_, _, _, _)
Remaining(T, g, R, changed) ==
    IF changed = {} THEN R
    ELSE LET again == [s \in UNION {CameFrom(T, g, t) : t \in changed} |->
                          Bellman(T, g, R, s)]
             R2 == [s \in DOMAIN R |-> IF s \in DOMAIN again THEN again[s] ELSE R[s]]
         IN IF R2 = R THEN R
            ELSE Remaining(T, g, R2, {s \in DOMAIN R : R2[s] # R[s]})

TrueRemaining(T, g) ==
    LET stops == {s \in Walkers(T, g) : MayStop(T, g, s)}
    IN Remaining(T, g, [s \in Walkers(T, g) |-> IF s \in stops THEN Some(0) ELSE None], stops)

\* the minimum over all legal paths from the top-left cell to the target
TrueCheapest(T, g) == TrueRemaining(T, g)[Fresh(<<0, 0>>)]

\* the unconstrained 4-neighbour cost to the target of every cell
RECURSIVE FreeRemaining(_, _)
FreeRemaining(g, R) ==
    LET R2 == [p \in Cells(g) |->
                  Least((IF p = Target(g) THEN {0} ELSE {})
                        \cup UNION {{g.cells[q] + v : v \in R[q]} :
                                      q \in {<<p[1] + dy(d), p[2] + dx(d)>> : d \in Directions}
                                            \cap Cells(g)})]
    IN IF R2 = R THEN R ELSE FreeRemaining(g, R2)

TrueFree(g) == FreeRemaining(g, [p \in Cells(g) |-> None])

-----------------------------------------------------------------------------
(* Further calls on the same Map, and a Map parsed from a changed text *)

MaxCalls == 3

\* another call of cheapest_path_cost_normal / _ultra on the same Map
SearchAgain ==
    /\ pc = "done"
    /\ Len(history) < MaxCalls
    /\ \E T \in Policies : BeginSearch(T, "heap")

NextAgain == Next \/ SearchAgain

SpecAgain == Init /\ [][NextAgain]_vars

\* the same search once more, its pops free to take any entry of least priority
SearchAnyOrder ==
    /\ pc = "done"
    /\ Len(history) = 1
    /\ BeginSearch(policy, "any")

NextTie == Next \/ SearchAnyOrder

TieCells == 25

\* small windows of every grid, and all windows of ZeroGrid
TieTexts == Windows(1..Len(Corpus), TieCells, 0) \cup Windows({3}, MaxCells, 0)

InitTie == InitWith(TieTexts, Policies)

SpecTie == InitTie /\ [][NextTie]_vars

\* the text with the digit at index i replaced by the greater digit d
Raised(text, i, d) == [text EXCEPT ![i] = d + ASCII_ZERO]

\* the digits a raised cell may get: the next one, and 9
RaisedDigits(b) == {d \in {b - ASCII_ZERO + 1, 9} : d + ASCII_ZERO > b}

\* a second Map is parsed from the text with one cell's cost raised, and
\* searched with the same policy
ParseRaised ==
    /\ pc = "done"
    /\ Len(history) = 1
    /\ \E i \in {i \in 1..Len(input) : input[i] # NEWLINE} :
          \E d \in RaisedDigits(input[i]) :
             input' = Raised(input, i, d)
    /\ pc' = "parse"
    /\ grid' = NoGrid
    /\ lowest_cost' = <<>>
    /\ hvisited' = <<>>
    /\ hfrontier' = EmptyBag
    /\ heur_cost_to_target' = <<>>
    /\ visited' = {}
    /\ frontier' = EmptyBag
    /\ best_cost' = <<>>
    /\ popped' = None
    /\ result' = None
    /\ UNCHANGED <<policy, tiebreak, history, walk>>

NextRaised == Next \/ ParseRaised

MonoCells == 25

\* small windows of every grid, and all windows of ZeroGrid
MonoTexts == Windows(1..Len(Corpus), MonoCells, 0) \cup Windows({3}, MaxCells, 0)

InitMono == InitWith(MonoTexts, Policies)

SpecMono == InitMono /\ [][NextRaised]_vars

-----------------------------------------------------------------------------
(* Map::from_str on arbitrary short texts: digits, newlines, a byte below   *)
(* '0' (space) and a byte above '9' (the letter a); and every one-cell grid *)

MaxText == 4

TextBytes == {NEWLINE, 32, ASCII_ZERO, ASCII_ZERO + 1, ASCII_ZERO + 9, 97}

ShortTexts == UNION {[1..n -> TextBytes] : n \in 0..MaxText}

OneCellTexts == {<<d + ASCII_ZERO>> : d \in 0..9}

InitText == InitWith(ShortTexts \cup OneCellTexts, Policies)

SpecText == InitText /\ [][Next]_vars

-----------------------------------------------------------------------------
(* Shapes: every window of the first example at its top-left corner of at   *)
(* most MaxSide rows and columns, and every single row and column of it     *)

MaxSide == 12

Shapes ==
    ((1..MaxSide) \X (1..MaxSide))
        \cup ({1} \X (1..Len(Example1[1]))) \cup ((1..Len(Example1)) \X {1})

ShapeTexts == {TextOf(Window(Example1, 0, 0, hw[1], hw[2])) : hw \in Shapes}

InitShapes == InitWith(ShapeTexts, Policies)

SpecShapes == InitShapes /\ [][Next]_vars

-----------------------------------------------------------------------------
(* Chains of make_step: from T::new((0, 0), South), any direction is asked  *)
(* of the node reached so far, as get_all_neighbours asks all four; a        *)
(* successor returned becomes the node reached.  walk.tried is the last call *)
(* (node, direction, returned Option); walk.lastdir and walk.run follow the  *)
(* moves made: the direction of the last move and the moves made in a row in *)
(* that direction (walk.tried keeps the two as they were before the call).   *)

StartWalk ==
    /\ pc = "ready"
    /\ pc' = "walk"
    /\ walk' = [node |-> NodeNew(policy, <<0, 0>>, "South"), tried |-> None,
                lastdir |-> "none", run |-> 0]
    /\ UNCHANGED mapVars
    /\ UNCHANGED searchVars
    /\ UNCHANGED history

WalkStep ==
    /\ pc = "walk"
    /\ \E direction \in Directions :
       \E step \in {make_step(policy, walk.node, grid, direction)} :
          walk' = [node |-> IF step = None THEN walk.node ELSE Unwrap(step),
                   tried |-> Some([node |-> walk.node, direction |-> direction, step |-> step,
                                   lastdir |-> walk.lastdir, run |-> walk.run]),
                   lastdir |-> IF step = None THEN walk.lastdir ELSE direction,
                   run |-> IF step = None THEN walk.run
                           ELSE IF direction = walk.lastdir THEN walk.run + 1 ELSE 1]
    /\ UNCHANGED pc
    /\ UNCHANGED mapVars
    /\ UNCHANGED searchVars
    /\ UNCHANGED history

NextWalk == Next \/ StartWalk \/ WalkStep

\* the shapes walked: up to WalkSide rows and columns, and the longest single
\* row and column of the first example
WalkSide == 5

WalkShapes ==
    ((1..WalkSide) \X (1..WalkSide))
        \cup {<<1, Len(Example1[1])>>, <<Len(Example1), 1>>}

WalkTexts == {TextOf(Window(Example1, 0, 0, hw[1], hw[2])) : hw \in WalkShapes}

InitWalk == InitWith(WalkTexts, Policies)

SpecWalk == InitWalk /\ [][NextWalk]_vars

-----------------------------------------------------------------------------
(* The tests of src/src/bin/17.rs: both searches on the example grids *)

InitExamples == InitWith({TextOf(Example1), TextOf(Example2)}, Policies)

SpecExamples == InitExamples /\ [][Next]_vars

-----------------------------------------------------------------------------
(* Claims *)

\* the Map is built: from_str has returned
MapBuilt == pc \in {"ready", "search", "done"}

\* C1: cheapest_path_cost_normal returns Some(the minimum over the legal
\* bounded-run paths from the top-left to the bottom-right cell), and None
\* exactly when there is no such path.
C1_NormalIsMinimum ==
    (pc = "done" /\ policy = "Crucible") => result = TrueCheapest("Crucible", grid)

\* a bounded-run search has returned a cost that the run limit made dearer
\* than the unconstrained cheapest path
C1_Witness ==
    /\ pc = "done"
    /\ policy = "Crucible"
    /\ \E v \in result : v > heur_cost_to_target[<<0, 0>>]

\* C2: cheapest_path_cost_ultra returns Some(the minimum over the legal
\* minimum-run-with-cap paths, whose runs are all 4 to 10 moves long), and
\* None exactly when there is no such path.
C2_UltraIsMinimum ==
    (pc = "done" /\ policy = "UltraCrucible") => result = TrueCheapest("UltraCrucible", grid)

\* an ultra search on a grid with several rows and columns has returned a cost
\* that the run limits made dearer than the unconstrained cheapest path
C2_Witness ==
    /\ pc = "done"
    /\ policy = "UltraCrucible"
    /\ grid.height > 1 /\ grid.width > 1
    /\ \E v \in result : v > heur_cost_to_target[<<0, 0>>]

\* C3: the bounded-run search on the 13x13 example grid returns Some(102).
C3_Example1Normal ==
    (pc = "done" /\ input = TextOf(Example1) /\ policy = "Crucible") => result = Some(102)

C3_Witness ==
    pc = "done" /\ input = TextOf(Example1) /\ policy = "Crucible" /\ result # None

\* C4: the minimum-run-with-cap search on the 13x13 example grid returns Some(94).
C4_Example1Ultra ==
    (pc = "done" /\ input = TextOf(Example1) /\ policy = "UltraCrucible") => result = Some(94)

C4_Witness ==
    pc = "done" /\ input = TextOf(Example1) /\ policy = "UltraCrucible" /\ result # None

\* C5: the minimum-run-with-cap search on the second example grid (a row of
\* twelve 1s over four rows 999999999991) returns Some(71).
C5_Example2Ultra ==
    (pc = "done" /\ input = TextOf(Example2) /\ policy = "UltraCrucible") => result = Some(71)

C5_Witness ==
    pc = "done" /\ input = TextOf(Example2) /\ policy = "UltraCrucible" /\ result # None

\* C6: when find_lowest_cost_to_target has returned, the value of every cell
\* is the least cost of an unconstrained 4-neighbour path from the cell to the
\* target (the cells entered are paid for); the target's value is 0 and no
\* cell keeps the sentinel.
C6_HeuristicIsFreeMinimum ==
    pc = "ready" =>
        /\ LET R == TrueFree(grid)
           IN \A p \in Cells(grid) : Some(heur_cost_to_target[p]) = R[p]
        /\ heur_cost_to_target[Target(grid)] = 0
        /\ \A p \in Cells(grid) : heur_cost_to_target[p] # UNREACHED

\* the table is built for a grid in which the cheapest way from some cell to
\* the target starts by going up or left
C6_Witness ==
    /\ pc = "ready"
    /\ \E p \in Cells(grid) :
          /\ p # Target(grid)
          /\ \A d \in {"South", "East"} :
                \A q \in get_neighbour_pos(grid, p, d) :
                    heur_cost_to_target[p] < grid.cells[q] + heur_cost_to_target[q]

\* C7: the heuristic of a cell never exceeds the true cheapest bounded-run
\* cost from that cell to the target, nor the true remaining cost of any
\* minimum-run-with-cap node at that cell.
C7_Admissible ==
    pc = "ready" =>
        /\ LET R == TrueRemaining("Crucible", grid)
           IN \A p \in Cells(grid) : \A v \in R[Fresh(p)] : heur_cost_to_target[p] <= v
        /\ LET R == TrueRemaining("UltraCrucible", grid)
           IN \A s \in DOMAIN R : \A v \in R[s] : heur_cost_to_target[s.pos] <= v

\* the table is built for a grid with a cell, not the target, whose heuristic
\* is strictly below its bounded-run cost, and that cost exists
C7_Witness ==
    /\ pc = "ready"
    /\ LET R == TrueRemaining("Crucible", grid)
       IN \E p \in Cells(grid) : \E v \in R[Fresh(p)] :
             0 < heur_cost_to_target[p] /\ heur_cost_to_target[p] < v

\* C8: whichever entry of least priority each pop takes, the search returns
\* what it returns with the heap's own order.
C8_TieBreakIndependent ==
    pc = "done" =>
        \A i, j \in DOMAIN history :
            history[i].policy = history[j].policy => history[i].result = history[j].result

\* a search whose pops were free has returned the cost of an entry that the
\* heap would not have popped: an entry of the same priority and a lower cost
\* is still in the frontier
C8_Witness ==
    /\ pc = "done"
    /\ tiebreak = "any"
    /\ \E e \in popped : \E f \in DOMAIN frontier : f[1] = e[1] /\ f[2] < e[2]

\* the grid b is the grid a with the cost of exactly one cell increased
OneCellRaised(a, b) ==
    /\ a.height = b.height /\ a.width = b.width
    /\ \E p \in Cells(a) :
          /\ a.cells[p] < b.cells[p]
          /\ \A q \in Cells(a) \ {p} : a.cells[q] = b.cells[q]

\* C9: when one cell's cost is increased, the minimum reported for the new
\* grid is at least the one reported for the old grid, and a result is present
\* for the one exactly when it is for the other.
C9_Monotone ==
    pc = "done" =>
        \A i, j \in DOMAIN history :
            (/\ history[i].policy = history[j].policy
             /\ OneCellRaised(history[i].grid, history[j].grid))
            => /\ (history[i].result = None) = (history[j].result = None)
               /\ \A v \in history[i].result : \A w \in history[j].result : v <= w

\* the search on a grid with a raised cell has returned a strictly greater cost
C9_Witness ==
    /\ pc = "done"
    /\ Len(history) = 2
    /\ OneCellRaised(history[1].grid, history[2].grid)
    /\ \E v \in history[1].result : \E w \in history[2].result : v < w

\* C10: calls with the same policy on the same Map return the same result,
\* whatever was called before them, and no step taken once the Map is built
\* changes the grid or the heuristic table.
C10_Purity ==
    /\ [](pc = "done" =>
            \A i, j \in DOMAIN history :
                history[i].policy = history[j].policy => history[i].result = history[j].result)
    /\ [][MapBuilt => (grid' = grid /\ heur_cost_to_target' = heur_cost_to_target)]_vars

\* an ultra search, then a bounded-run search, then an ultra search again have
\* returned on one Map, with costs
C10_Witness ==
    /\ pc = "done"
    /\ Len(history) = 3
    /\ history[1].policy = "UltraCrucible"
    /\ history[2].policy = "Crucible"
    /\ history[3].policy = "UltraCrucible"
    /\ history[2].result # None
    /\ history[3].result # None


-----------------------------------------------------------------------------
\* C11: on a 1x1 grid the bounded-run search returns Some(0) whatever the
\* cell's digit is, and the minimum-run-with-cap search returns None
C11_OneCell ==
    (pc = "done" /\ grid.height = 1 /\ grid.width = 1)
        => result = (IF policy = "Crucible" THEN Some(0) ELSE None)

C11_Witness ==
    /\ pc = "done"
    /\ input = <<ASCII_ZERO + 9>>
    /\ grid.cells[<<0, 0>>] = 9
    /\ policy = "Crucible"
    /\ result = Some(0)

-----------------------------------------------------------------------------
(* the lines of a text: the bytes between newlines; the empty piece after a  *)
(* final newline is no line                                                  *)

IsDigit(b) == b \in ASCII_ZERO..(ASCII_ZERO + 9)

HasOtherByte(s) == \E i \in 1..Len(s) : s[i] # NEWLINE /\ ~IsDigit(s[i])

LineLengths(s) ==
    LET breaks == {i \in 1..Len(s) : s[i] = NEWLINE}
        ends == breaks \cup {Len(s) + 1}
        starts == {a \in breaks \cup {0} : ~(a = Len(s) /\ a > 0)}
    IN { (CHOOSE e \in ends : e > a /\ \A f \in ends : f > a => e <= f) - a - 1 : a \in starts }

Ragged(s) == Cardinality(LineLengths(s)) > 1

\* C13: a text with a byte that is neither a digit nor a newline is refused with
\* an error value: the parse returns Err, it does not panic and builds no Map
C13_OtherByteIsError ==
    (pc # "parse" /\ HasOtherByte(input)) => pc = "err"

\* C14: a text whose lines differ in length is refused with an error value and
\* never becomes a Map.  Stated for the texts of digits and newlines without an
\* empty line; the other texts are the cases of C13 and C15.
C14_RaggedIsError ==
    (pc # "parse" /\ Ragged(input) /\ ~HasOtherByte(input) /\ 0 \notin LineLengths(input))
        => pc = "err"

\* C15: the empty text is refused with an error value
C15_EmptyIsError ==
    (pc # "parse" /\ input = <<>>) => pc = "err"

-----------------------------------------------------------------------------
(* the shapes on which a legal path exists *)

\* bounded-run: none on a single row or column of 5 or more cells
NormalAbsent(h, w) == (h = 1 /\ w >= 5) \/ (w = 1 /\ h >= 5)

\* minimum-run-with-cap: a single row or column of 5 to 11 cells, or at least 5
\* rows and 5 columns
UltraPresent(h, w) ==
    IF h = 1 THEN w - 1 \in 4..10
    ELSE IF w = 1 THEN h - 1 \in 4..10
    ELSE h >= 5 /\ w >= 5

\* C12 as claimed: on a valid grid the search never returns None
C12_NeverAbsent == pc = "done" => result # None

\* C12 as amended: the search returns None exactly on the narrow shapes: for
\* the bounded-run policy a single row or column of 5 or more cells, for the
\* minimum-run-with-cap policy every shape but a single row or column of 5 to 11
\* cells and the shapes of at least 5 rows and 5 columns
C12_AbsentOnNarrowOnly ==
    pc = "done" =>
        (result = None <=>
            IF policy = "Crucible" THEN NormalAbsent(grid.height, grid.width)
            ELSE ~UltraPresent(grid.height, grid.width))

C12_Witness ==
    /\ pc = "done"
    /\ policy = "UltraCrucible"
    /\ grid.height >= 5
    /\ grid.width >= 5
    /\ result # None

-----------------------------------------------------------------------------
\* C16: on every grid and under both policies the loop of
\* find_lowest_cost_to_target ends (the Map gets built), and the loop of
\* cheapest_path_cost ends, either at the pop of a node at the target that may
\* stop, whose cost is returned, or with the frontier empty and None returned
C16_Terminates ==
    /\ pc = "heur" ~> pc = "ready"
    /\ pc = "search" ~>
          /\ pc = "done"
          /\ \/ /\ frontier = EmptyBag
                /\ result = None
             \/ \E e \in popped :
                   /\ e[3].pos = Target(grid)
                   /\ can_stop(policy, e[3])
                   /\ result = Some(e[2])

C16_Witness ==
    /\ pc = "done"
    /\ result # None
    /\ Cardinality(visited) >= 10

-----------------------------------------------------------------------------
(* the geometry of a step, stated apart from the code *)

Offset(d) ==
    CASE d = "North" -> <<-1, 0>> [] d = "South" -> <<1, 0>>
      [] d = "East" -> <<0, 1>> [] d = "West" -> <<0, -1>>

Reverse(d) ==
    CASE d = "North" -> "South" [] d = "South" -> "North"
      [] d = "East" -> "West" [] d = "West" -> "East"

Ahead(pos, d) == <<pos[1] + Offset(d)[1], pos[2] + Offset(d)[2]>>

InGrid(g, pos) == pos[1] \in 0..(g.height - 1) /\ pos[2] \in 0..(g.width - 1)

\* the last make_step call asked for a cell of the grid and for no reversal
Admissible(t) == InGrid(grid, Ahead(t.node.pos, t.direction)) /\ t.direction # Reverse(t.node.direction)

Walking(T) == pc = "walk" /\ policy = T

\* C17: for a Crucible and a direction that stays in the grid and does not
\* reverse, a turn always has a successor, with remaining_steps 2; going
\* straight has one when remaining_steps > 0, with remaining_steps one less;
\* going straight with remaining_steps 0 has none
C17_BoundedRunExpand ==
    Walking("Crucible") =>
        \A t \in walk.tried :
            Admissible(t) =>
                IF t.direction # t.node.direction
                THEN \E n \in t.step : n.remaining_steps = 2
                ELSE IF t.node.remaining_steps > 0
                THEN \E n \in t.step : n.remaining_steps = t.node.remaining_steps - 1
                ELSE t.step = None

C17_Witness ==
    /\ Walking("Crucible")
    /\ \E t \in walk.tried :
          /\ Admissible(t)
          /\ t.direction = t.node.direction
          /\ t.node.remaining_steps = 0
          /\ t.step = None

\* C18: for an UltraCrucible and a direction that stays in the grid and does
\* not reverse, going straight has a successor exactly when consecutive_steps
\* < 10, with consecutive_steps one more; a turn has one exactly when
\* consecutive_steps >= 4 or = 0, with consecutive_steps 1; and only the initial
\* node has consecutive_steps 0
C18_MinRunCapExpand ==
    Walking("UltraCrucible") =>
        /\ \A t \in walk.tried :
              Admissible(t) =>
                  IF t.direction = t.node.direction
                  THEN /\ t.step # None <=> t.node.consecutive_steps < 10
                       /\ \A n \in t.step : n.consecutive_steps = t.node.consecutive_steps + 1
                  ELSE /\ t.step # None <=>
                              (t.node.consecutive_steps >= 4 \/ t.node.consecutive_steps = 0)
                       /\ \A n \in t.step : n.consecutive_steps = 1
        /\ walk.node.consecutive_steps = 0 => walk.lastdir = "none"

C18_Witness ==
    /\ Walking("UltraCrucible")
    /\ \E t \in walk.tried :
          /\ Admissible(t)
          /\ t.direction = t.node.direction
          /\ t.node.consecutive_steps = 10
          /\ t.step = None

\* C19: under both policies a successor returned by make_step is at the cell of
\* the grid next to its parent in the successor's direction, which is the
\* direction asked and not the reverse of the parent's; and every node on the
\* frontier, in best_cost or in visited is at a cell of the grid
C19_SuccessorsInBounds ==
    /\ pc = "walk" =>
          \A t \in walk.tried : \A n \in t.step :
              /\ InGrid(grid, n.pos)
              /\ n.pos = Ahead(t.node.pos, n.direction)
              /\ n.direction = t.direction
              /\ n.direction # Reverse(t.node.direction)
    /\ \A e \in DOMAIN frontier : InGrid(grid, e[3].pos)
    /\ \A n \in DOMAIN best_cost \cup visited : InGrid(grid, n.pos)

C19_Witness ==
    /\ pc = "walk"
    /\ policy = "UltraCrucible"
    /\ \E t \in walk.tried : \E n \in t.step :
          /\ n.direction = "West"
          /\ n.pos[2] = 0

\* C20: along every chain of Crucible nodes made by make_step from the initial
\* node, no more than 3 moves in a row go in one direction; remaining_steps is
\* in 0..3, is 3 in the initial node only, and no successor has it below 0
C20_RunOfThree ==
    Walking("Crucible") =>
        /\ walk.run <= 3
        /\ walk.node.remaining_steps \in 0..3
        /\ walk.node.remaining_steps = 3 => walk.lastdir = "none"
        /\ \A t \in walk.tried : \A n \in t.step : n.remaining_steps >= 0

C20_Witness ==
    /\ Walking("Crucible")
    /\ walk.lastdir = "South"
    /\ walk.run = 3
    /\ walk.node.remaining_steps = 0

\* C21: along every chain of UltraCrucible nodes made by make_step from the
\* initial node, a move in a new direction, the first move apart, follows at
\* least 4 moves in a row in the direction before; no more than 10 moves in a
\* row go in one direction; and every node but the initial one has
\* consecutive_steps in 1..10
C21_RunOfFourToTen ==
    Walking("UltraCrucible") =>
        /\ walk.run <= 10
        /\ walk.lastdir # "none" => walk.node.consecutive_steps \in 1..10
        /\ \A t \in walk.tried :
              (t.step # None /\ t.lastdir # "none" /\ t.direction # t.lastdir) => t.run >= 4

C21_Witness ==
    /\ Walking("UltraCrucible")
    /\ walk.run = 1
    /\ \E t \in walk.tried :
          /\ t.step # None
          /\ t.lastdir = "East"
          /\ t.direction = "South"
          /\ t.run = 4

-----------------------------------------------------------------------------
\* the neighbours the for loop of cheapest_path_cost goes through for a node
Neighbours(T, g, node) ==
    UNION {make_step(T, node, g, direction) : direction \in Directions}

AtTarget(node) == node.pos = <<grid.height - 1, grid.width - 1>>

\* C22: a cost is returned only as the cost of the popped entry, whose node is
\* at the bottom-right cell and, for an UltraCrucible, has consecutive_steps
\* >= 4 (a last run of at least 4 moves); an UltraCrucible popped at that cell
\* with fewer is not returned but expanded as any node is: it is put in visited
\* and each of its neighbours is given a best_cost
C22_AcceptOnlyStoppable ==
    /\ (pc = "done" /\ result # None) =>
           \E e \in popped :
               /\ result = Some(e[2])
               /\ AtTarget(e[3])
               /\ policy = "UltraCrucible" => e[3].consecutive_steps >= 4
    /\ (pc \in {"search", "done"} /\ policy = "UltraCrucible") =>
           \A e \in popped :
               (AtTarget(e[3]) /\ e[3].consecutive_steps < 4) =>
                   /\ result = None
                   /\ e[3] \in visited
                   /\ Neighbours(policy, grid, e[3]) \subseteq DOMAIN best_cost

C22_Witness ==
    /\ pc = "search"
    /\ policy = "UltraCrucible"
    /\ grid.height >= 5
    /\ \E e \in popped :
          /\ AtTarget(e[3])
          /\ e[3].consecutive_steps \in 1..3
          /\ e[3] \in visited

-----------------------------------------------------------------------------
\* a step of the loop of cheapest_path_cost within one search
InSearch == pc = "search" /\ pc' \in {"search", "done"}

\* the entries the step pushed
Pushed == {f \in DOMAIN frontier' : f \notin DOMAIN frontier \/ frontier'[f] > frontier[f]}

\* C24: a neighbour is pushed only when its new cost, the popped cost plus the
\* cost of its cell, is strictly lower than the cost best_cost has for it, or
\* best_cost has none; a push sets best_cost to the new cost and has the
\* priority new cost + heuristic, and best_cost changes with a push only.  So
\* best_cost of a node never increases, and every frontier entry (p, c, n) has
\* p = c + heuristic(n.pos) and best_cost[n] <= c
C24_PushOnStrictImprovement ==
    /\ [](pc \in {"search", "done"} =>
             \A e \in DOMAIN frontier :
                 /\ e[1] = e[2] + heur_cost_to_target[e[3].pos]
                 /\ e[3] \in DOMAIN best_cost
                 /\ best_cost[e[3]] <= e[2])
    /\ [][InSearch =>
             /\ \A n \in DOMAIN best_cost :
                    n \in DOMAIN best_cost' /\ best_cost'[n] <= best_cost[n]
             /\ \A f \in Pushed :
                    /\ \E e \in popped' : f[2] = e[2] + grid.cells[f[3].pos]
                    /\ f[3] \notin DOMAIN best_cost \/ f[2] < best_cost[f[3]]
                    /\ best_cost'[f[3]] = f[2]
                    /\ f[1] = f[2] + heur_cost_to_target[f[3].pos]
             /\ \A n \in DOMAIN best_cost' :
                    (n \notin DOMAIN best_cost \/ best_cost'[n] # best_cost[n]) =>
                        \E f \in Pushed : f[3] = n /\ f[2] = best_cost'[n]]_vars

C24_Witness ==
    /\ pc = "search"
    /\ \E e \in popped : \E n \in Neighbours(policy, grid, e[3]) :
          /\ n \notin visited
          /\ best_cost[n] < e[2] + grid.cells[n.pos]
    /\ \E e \in popped : \E f \in DOMAIN frontier : f[2] = e[2] + grid.cells[f[3].pos]

\* C27: within one search no node is pushed twice: the frontier never holds two
\* entries of one node nor an entry of a visited node, so a node is popped and
\* expanded once; the popped node is never in visited already, and no best_cost
\* entry is ever overwritten
C27_PushedOnce ==
    /\ [](pc \in {"search", "done"} =>
             /\ \A e \in DOMAIN frontier : frontier[e] = 1 /\ e[3] \notin visited
             /\ \A e, f \in DOMAIN frontier : e[3] = f[3] => e = f)
    /\ [][InSearch =>
             /\ frontier # EmptyBag => \A e \in popped' : e[3] \notin visited
             /\ \A f \in Pushed : f[3] \notin visited /\ f[3] \notin DOMAIN best_cost
             /\ \A n \in DOMAIN best_cost :
                    n \in DOMAIN best_cost' /\ best_cost'[n] = best_cost[n]]_vars

C27_Witness ==
    /\ pc = "search"
    /\ Cardinality(visited) >= 10
    /\ \E e \in popped : \E n \in Neighbours(policy, grid, e[3]) :
          /\ n \notin visited
          /\ best_cost[n] < e[2] + grid.cells[n.pos]

-----------------------------------------------------------------------------
(* Reference: the least cost of a legal way from the start to every walker *)

Start == Fresh(<<0, 0>>)

\* the least cost of reaching walker t, given the least costs R of the walkers
\* it can come from
BellmanFrom(T, g, R, t) ==
    Least((IF t = Start THEN {0} ELSE {})
          \cup UNION {{g.cells[t.pos] + v : v \in R[s]} : s \in CameFrom(T, g, t)})

\* R[t]: the least cost of a legal way of at most k moves from the start to
\* walker t, for growing k, until another move gains nothing
RECURSIVE Reaching(_, _, _, _)
Reaching(T, g, R, changed) ==
    IF changed = {} THEN R
    ELSE LET again == [t \in UNION {Moves(T, g, s) : s \in changed} |->
                          BellmanFrom(T, g, R, t)]
             R2 == [t \in DOMAIN R |-> IF t \in DOMAIN again THEN again[t] ELSE R[t]]
         IN IF R2 = R THEN R
            ELSE Reaching(T, g, R2, {t \in DOMAIN R : R2[t] # R[t]})

TrueReaching(T, g) ==
    Reaching(T, g, [t \in Walkers(T, g) |-> IF t = Start THEN Some(0) ELSE None], {Start})

\* the walker a node of the search stands for: the start node has made no move,
\* a Crucible has made 3 - remaining_steps moves in a row, an UltraCrucible
\* consecutive_steps
WalkerOf(T, node) ==
    IF T = "Crucible"
    THEN IF node.remaining_steps = 3 THEN Fresh(node.pos)
         ELSE [pos |-> node.pos, dir |-> node.direction, run |-> 3 - node.remaining_steps]
    ELSE IF node.consecutive_steps = 0 THEN Fresh(node.pos)
         ELSE [pos |-> node.pos, dir |-> node.direction, run |-> node.consecutive_steps]

\* C25: a neighbour the loop passes over because it is in visited never comes
\* with a cost below the one best_cost has for it; best_cost of a visited node
\* does not change, and is the least cost of a legal way from the start to that
\* node (position, direction, run)
C25_VisitedIsFinal ==
    /\ [](pc = "done" =>
             LET R == TrueReaching(policy, grid)
             IN \A n \in visited : Some(best_cost[n]) = R[WalkerOf(policy, n)])
    /\ [][(InSearch /\ pc' = "search") =>
             /\ \A e \in popped' : \A m \in Neighbours(policy, grid, e[3]) :
                    m \in visited => e[2] + grid.cells[m.pos] >= best_cost[m]
             /\ \A n \in visited : n \in visited' /\ best_cost'[n] = best_cost[n]
             /\ \A n \in visited' \ visited : \E e \in popped' : e[3] = n /\ e[2] = best_cost'[n]]_vars

C25_Witness ==
    /\ pc = "search"
    /\ \E e \in popped : \E m \in Neighbours(policy, grid, e[3]) :
          /\ m \in visited
          /\ m # e[3]
          /\ e[2] + grid.cells[m.pos] > best_cost[m]


\* C26: in find_lowest_cost_to_target a popped entry of a finalized cell changes
\* nothing (no cost, no flag, no push); the entry that finalizes a cell carries
\* that cell's recorded lowest cost; a finalized cell stays finalized and its
\* recorded lowest cost never changes
C26_HeurFinal ==
    [][(pc = "heur" /\ hfrontier # EmptyBag) =>
          LET e == HeurPop(hfrontier)
          IN /\ hvisited[e[2]] =>
                   /\ lowest_cost' = lowest_cost
                   /\ hvisited' = hvisited
                   /\ \A f \in DOMAIN hfrontier' :
                          f \in DOMAIN hfrontier /\ hfrontier'[f] <= hfrontier[f]
             /\ ~hvisited[e[2]] => e[1] = lowest_cost[e[2]] /\ hvisited'[e[2]]
             /\ \A p \in DOMAIN hvisited :
                    /\ (hvisited'[p] /\ ~hvisited[p]) => p = e[2]
                    /\ hvisited[p] => hvisited'[p] /\ lowest_cost'[p] = lowest_cost[p]]_vars

C26_Witness ==
    /\ pc = "heur"
    /\ hfrontier # EmptyBag
    /\ LET e == HeurPop(hfrontier)
       IN /\ hvisited[e[2]]
          /\ e[1] > lowest_cost[e[2]]
          /\ \E p \in DOMAIN hvisited : ~hvisited[p]


\* C28: in one search, an entry popped after another has a priority at least
\* as great, and every entry pushed while a popped entry is expanded has a
\* priority at least as great as that of the popped entry
C28_PrioritiesGrow ==
    [][(InSearch /\ frontier # EmptyBag) =>
          \A e \in popped' :
             /\ \A d \in popped : d[1] <= e[1]
             /\ \A f \in Pushed : f[1] >= e[1]]_vars

C28_Witness ==
    /\ pc = "search"
    /\ \E e \in popped :
          /\ e[2] > 0
          /\ \E f \in DOMAIN frontier :
                /\ f[3] \in Neighbours(policy, grid, e[3])
                /\ f[2] = e[2] + grid.cells[f[3].pos]
                /\ f[1] > e[1]
          /\ \E f \in DOMAIN frontier :
                /\ f[3] \in Neighbours(policy, grid, e[3])
                /\ f[2] = e[2] + grid.cells[f[3].pos]
                /\ f[1] = e[1]


\* the cells next to cell a (up, down, left, right)
Adjacent(g, a) ==
    {b \in DOMAIN g.cells : (a[1] = b[1] /\ (a[2] - b[2]) \in {-1, 1})
                             \/ (a[2] = b[2] /\ (a[1] - b[1]) \in {-1, 1})}

\* C29: the heuristic of the Map is consistent: for all cells a and b next to
\* each other, heuristic(a) <= cost of entering b + heuristic(b)
C29_Consistent ==
    MapBuilt =>
        \A a \in DOMAIN grid.cells : \A b \in Adjacent(grid, a) :
            heur_cost_to_target[a] <= grid.cells[b] + heur_cost_to_target[b]

C29_Witness ==
    /\ pc = "ready"
    /\ grid.height >= 3 /\ grid.width >= 3
    /\ \E a \in DOMAIN grid.cells : \E b, c \in Adjacent(grid, a) :
          /\ heur_cost_to_target[a] = grid.cells[b] + heur_cost_to_target[b]
          /\ heur_cost_to_target[a] < grid.cells[c] + heur_cost_to_target[c]
          /\ heur_cost_to_target[c] < heur_cost_to_target[a]

-----------------------------------------------------------------------------
(* The search on a grid and on its transpose *)

\* the rows of the transpose of grid g: row x of it is column x of g
TransposedRows(g) ==
    [x \in 1..g.width |-> [y \in 1..g.height |-> g.cells[<<y - 1, x - 1>>]]]

\* a second Map is parsed from the text of the transposed grid, and searched
\* with the same policy
ParseTransposed ==
    /\ pc = "done"
    /\ Len(history) = 1
    /\ input' = TextOf(TransposedRows(grid))
    /\ pc' = "parse"
    /\ grid' = NoGrid
    /\ lowest_cost' = <<>>
    /\ hvisited' = <<>>
    /\ hfrontier' = EmptyBag
    /\ heur_cost_to_target' = <<>>
    /\ visited' = {}
    /\ frontier' = EmptyBag
    /\ best_cost' = <<>>
    /\ popped' = None
    /\ result' = None
    /\ UNCHANGED <<policy, tiebreak, history, walk>>

NextTransposed == Next \/ ParseTransposed

InitTransposed == InitWith(WindowTexts, Policies)

SpecTransposed == InitTransposed /\ [][NextTransposed]_vars

\* the grid b is the grid a with rows and columns swapped
IsTranspose(a, b) ==
    /\ a.height = b.width /\ a.width = b.height
    /\ \A p \in Cells(a) : a.cells[p] = b.cells[<<p[2], p[1]>>]

\* the run counter of a node
RunState(T, node) ==
    IF T = "Crucible" THEN node.remaining_steps ELSE node.consecutive_steps

\* C30: the first move East and the first move South of the start node give
\* successors with the same run-state (remaining_steps 2 for the Crucible,
\* consecutive_steps 1 for the UltraCrucible), and the search returns the same
\* result on a grid and on its transpose
C30_TransposeSame ==
    /\ MapBuilt =>
          \A T \in Policies : \A direction \in {"East", "South"} :
             LET first == make_step(T, NodeNew(T, <<0, 0>>, "South"), grid, direction)
             IN /\ (first # None) = (get_neighbour_pos(grid, <<0, 0>>, direction) # None)
                /\ \A n \in first : RunState(T, n) = (IF T = "Crucible" THEN 2 ELSE 1)
    /\ pc = "done" =>
          \A i, j \in DOMAIN history :
             (/\ history[i].policy = history[j].policy
              /\ IsTranspose(history[i].grid, history[j].grid))
             => history[i].result = history[j].result

\* both searches have returned a cost, on a grid that is not its own transpose
C30_Witness ==
    /\ pc = "done"
    /\ Len(history) = 2
    /\ IsTranspose(history[1].grid, history[2].grid)
    /\ history[1].grid # history[2].grid
    /\ history[1].grid.height >= 2 /\ history[1].grid.width >= 2
    /\ history[2].result # None
    /\ history[1].result = history[2].result

=============================================================================
